---- MODULE Spec2Model ----
(***************************************************************************)
(* A model of paper-to-audio: chunked_tts.py (chunk_text_by_lines,         *)
(* tts_chunk, save_audio_file, main) and text_extraction.py                *)
(* (extract_text_from_pdf).                                                *)
(*                                                                         *)
(* A str is a sequence of one-character strings; bytes are sequences of    *)
(* small integers.                                                         *)
(***************************************************************************)
EXTENDS Integers, Sequences, FiniteSets, TLC

\* ------------------------------------------------------------------ bounds
MaxTextLen == 5      \* longest text handed to chunk_text_by_lines
MaxLimit == 4        \* largest small char_limit tried (besides the default)
MaxMainLen == 3      \* longest text file read by main
MainLimit == 1       \* scaled-down stand-in for the default limit in main
MaxParts == 2        \* most parts in one backend response
MaxCalls == 3        \* most calls of extract_text_from_pdf in one behaviour
MaxExtractLen == 2   \* longest text returned by the extraction request

\* --------------------------------------------------------------- constants
CHUNK_CHAR_LIMIT == 8000

LF == "\n"
CR == "\r"
FF == "\f"
\* A lone surrogate: a character of a str that UTF-8 cannot encode.
SURR == "surrogate"

\* The characters str.splitlines() takes as line boundaries. Python has more
\* of them (vertical tab, the file, group and record separators, NEL, the
\* Unicode line and paragraph separators); each is one character and acts as
\* FF does here.
LineBreaks == {LF, CR, FF}

Alphabet == {"a", "b", LF, CR, FF}

RECURSIVE SeqsUpTo(_, _)
SeqsUpTo(S, n) ==
    IF n = 0 THEN {<<>>}
    ELSE LET shorter == SeqsUpTo(S, n - 1)
         IN shorter \cup {Append(s, c) : s \in {t \in shorter : Len(t) = n - 1}, c \in S}

\* ------------------------------------------------------------ str helpers
\* First index >= i of s holding a line boundary, Len(s) + 1 if there is none.
RECURSIVE FindBreak(_, _)
FindBreak(s, i) ==
    IF i > Len(s) THEN Len(s) + 1
    ELSE IF s[i] \in LineBreaks THEN i
    ELSE FindBreak(s, i + 1)

\* str.splitlines(), keepends=False, on s from index j: "\r\n" is one
\* boundary, and a boundary that ends the text opens no further line.
RECURSIVE SplitFrom(_, _)
SplitFrom(s, j) ==
    IF j > Len(s) THEN <<>>
    ELSE LET eol == FindBreak(s, j)
             next == IF eol > Len(s) THEN eol
                     ELSE IF s[eol] = CR /\ eol + 1 <= Len(s) /\ s[eol + 1] = LF
                          THEN eol + 2
                          ELSE eol + 1
         IN <<SubSeq(s, j, eol - 1)>> \o SplitFrom(s, next)

splitlines(s) == SplitFrom(s, 1)

\* sep.join(parts)
RECURSIVE join(_, _)
join(sep, parts) ==
    IF parts = <<>> THEN <<>>
    ELSE IF Len(parts) = 1 THEN parts[1]
    ELSE parts[1] \o sep \o join(sep, Tail(parts))

\* ---------------------------------------------------- chunk_text_by_lines
\* extra = len(line) + 1
\* (variant: the re-inserted newline is not counted)
extraNoNewline(line) == Len(line)
extra(line) == Len(line) + 1

\* current and length + extra > char_limit
\* (variant: a group that reaches the limit exactly is closed too)
exceedsAtLimit(cur, len, ex, limit) == cur # <<>> /\ len + ex >= limit
exceeds(cur, len, ex, limit) == cur # <<>> /\ len + ex > limit

\* One iteration of the for loop over the lines; st holds the locals.
\* (variant: the line that closes a group is not carried into the next)
chunkStepDropLine(st, line, limit) ==
    IF exceeds(st.current, st.length, extra(line), limit)
    THEN [chunks |-> Append(st.chunks, join(<<LF>>, st.current)),
          current |-> <<>>, length |-> 0]
    ELSE [chunks |-> st.chunks,
          current |-> Append(st.current, line),
          length |-> st.length + extra(line)]
chunkStep(st, line, limit) ==
    IF exceeds(st.current, st.length, extra(line), limit)
    THEN [chunks |-> Append(st.chunks, join(<<LF>>, st.current)),
          current |-> <<line>>, length |-> extra(line)]
    ELSE [chunks |-> st.chunks,
          current |-> Append(st.current, line),
          length |-> st.length + extra(line)]

RECURSIVE chunkLoop(_, _, _)
chunkLoop(st, lines, limit) ==
    IF lines = <<>> THEN st
    ELSE chunkLoop(chunkStep(st, Head(lines), limit), Tail(lines), limit)

chunk_text_by_lines(t, limit) ==
    LET st == chunkLoop([chunks |-> <<>>, current |-> <<>>, length |-> 0],
                        splitlines(t), limit)
    IN IF st.current # <<>>
       THEN Append(st.chunks, join(<<LF>>, st.current))
       ELSE st.chunks

\* ------------------------------------------------------------------ state
VARIABLES
    pc,            \* where the running program is
    text,          \* the str handed to chunk_text_by_lines
    char_limit,    \* its char_limit
    chunks,        \* the list of chunks it returned
    text_file,     \* main: args.text_file on disk, [exists, data]
    api_key,       \* main: whether GEMINI_API_KEY is set
    fmt,           \* main: args.format
    AudioSegment,  \* "None" when pydub is not installed
    idx,           \* main: the loop's idx (1-based)
    resp,          \* main: the bytes tts_chunk returned, not yet appended
    pcm_all,       \* main: the accumulator
    calls,         \* history: the chunk indexes submitted to the backend
    returned,      \* history: the bytes the backend calls returned, in order
    failed,        \* history: the idx whose backend call raised, 0 if none
    out_file,      \* the audio file on disk, [written, suffix, pcm]
    exit_status,   \* how the process ended, "running" until then
    fs_txt,        \* extraction: the cached text file, [exists, data]
    linesep,       \* extraction: os.linesep of the platform
    ncalls,        \* extraction: calls of extract_text_from_pdf so far
    requests,      \* extraction: chat completion requests issued so far
    extracted,     \* extraction: extracted_text of the call in progress
    cur,           \* extraction: [fs_before, reqs_before] of the call in progress
    log            \* history: one record per finished call

chunkVars == <<text, char_limit, chunks>>
mainVars == <<text_file, api_key, fmt, AudioSegment, idx, resp, pcm_all, calls,
              returned, failed, out_file, exit_status>>
cacheVars == <<fs_txt, linesep, ncalls, requests, extracted, cur, log>>
vars == <<pc, chunkVars, mainVars, cacheVars>>

NoFile == [exists |-> FALSE, data |-> <<>>]
NoAudio == [written |-> FALSE, suffix |-> "", pcm |-> <<>>]
NoCall == [fs_before |-> NoFile, reqs_before |-> 0]

MainIdle ==
    /\ text_file = NoFile /\ api_key = FALSE /\ fmt = "wav"
    /\ AudioSegment = "None" /\ idx = 0 /\ resp = <<>> /\ pcm_all = <<>>
    /\ calls = <<>> /\ returned = <<>> /\ failed = 0
    /\ out_file = NoAudio /\ exit_status = "running"

CacheIdle ==
    /\ fs_txt = NoFile /\ linesep = <<LF>> /\ ncalls = 0 /\ requests = 0
    /\ extracted = <<>> /\ cur = NoCall /\ log = <<>>

\* --------------------------------------------- chunk_text_by_lines, applied
\* The example of the chunker's documentation of its boundaries.
ScenarioText == <<"a", LF, "b", "b", LF, "c", "c", "c">>
ScenarioChunks == << <<"a">>, <<"b", "b">>, <<"c", "c", "c">> >>

Texts == SeqsUpTo(Alphabet, MaxTextLen) \cup {ScenarioText}
Limits == (0..MaxLimit) \cup {CHUNK_CHAR_LIMIT}

InitChunk ==
    /\ pc = "input"
    /\ text \in Texts
    /\ char_limit \in Limits
    /\ chunks = <<>>
    /\ MainIdle /\ CacheIdle

Chunk ==
    /\ pc = "input"
    /\ chunks' = chunk_text_by_lines(text, char_limit)
    /\ pc' = "chunked"
    /\ UNCHANGED <<text, char_limit, mainVars, cacheVars>>

NextChunk == Chunk

SpecChunk == InitChunk /\ [][NextChunk]_vars

\* str.split("\n"): the inverse of "\n".join on lines that hold no "\n".
RECURSIVE SplitLF(_)
SplitLF(s) ==
    LET i == CHOOSE k \in 1..(Len(s) + 1) :
                 /\ k = Len(s) + 1 \/ s[k] = LF
                 /\ \A m \in 1..(k - 1) : s[m] # LF
    IN IF i > Len(s) THEN <<s>>
       ELSE <<SubSeq(s, 1, i - 1)>> \o SplitLF(SubSeq(s, i + 1, Len(s)))

\* The lines of every chunk, concatenated in chunk order.
RECURSIVE LinesOfChunks(_)
LinesOfChunks(cs) ==
    IF cs = <<>> THEN <<>> ELSE SplitLF(Head(cs)) \o LinesOfChunks(Tail(cs))

\* s without the line boundaries that end it.
RECURSIVE StripTrailing(_)
StripTrailing(s) ==
    IF s # <<>> /\ s[Len(s)] \in LineBreaks
    THEN StripTrailing(SubSeq(s, 1, Len(s) - 1))
    ELSE s

\* len(line) + 1 summed over the lines g of a group.
RECURSIVE RunLen(_)
RunLen(g) == IF g = <<>> THEN 0 ELSE Len(Head(g)) + 1 + RunLen(Tail(g))

OnlyLF(s) == \A i \in 1..Len(s) : s[i] \notin (LineBreaks \ {LF})

\* C1 (as stated): the chunks partition the input's line sequence and joining
\* them with newlines reproduces the original text, up to the line boundaries
\* that end it.
C1_ReproducesText ==
    pc = "chunked" =>
        /\ LinesOfChunks(chunks) = splitlines(text)
        /\ StripTrailing(join(<<LF>>, chunks)) = StripTrailing(text)

\* C1 (amended): the chunks partition the input's line sequence into
\* contiguous runs in input order, and joining them with newlines gives the
\* input's lines joined by newlines; that is the original text itself, less
\* at most one final newline, when "\n" is the text's only line boundary.
C1_PartitionsLines ==
    pc = "chunked" =>
        /\ LinesOfChunks(chunks) = splitlines(text)
        /\ join(<<LF>>, chunks) = join(<<LF>>, splitlines(text))
        /\ OnlyLF(text) =>
               \/ text = join(<<LF>>, chunks)
               \/ text = join(<<LF>>, chunks) \o <<LF>>

C1_Witness ==
    /\ pc = "chunked"
    /\ Len(chunks) >= 2
    /\ \E i \in 1..Len(chunks) : Len(SplitLF(chunks[i])) >= 2
    /\ ~OnlyLF(text)

\* C2: for a limit >= 1 every chunk is at most limit characters long, except
\* a chunk of exactly one line that is itself longer than limit.
C2_ChunkWithinLimit ==
    (pc = "chunked" /\ char_limit >= 1) =>
        \A i \in 1..Len(chunks) :
            \/ Len(chunks[i]) <= char_limit
            \/ /\ Len(SplitLF(chunks[i])) = 1
               /\ Len(chunks[i]) > char_limit

C2_Witness ==
    /\ pc = "chunked" /\ char_limit >= 1
    /\ \E i \in 1..Len(chunks) : Len(chunks[i]) > char_limit
    /\ \E i \in 1..Len(chunks) :
           Len(SplitLF(chunks[i])) >= 2 /\ Len(chunks[i]) = char_limit - 1

\* C9: chunk boundaries follow the greedy rule. A line joins the current
\* group when the group is empty or the running length (len(line) + 1 over
\* the group) plus len(line) + 1 stays within limit, and starts a new chunk
\* otherwise; "a\nbb\nccc" with limit 3 gives ["a", "bb", "ccc"] and an empty
\* input gives no chunk.
C9_GreedyBoundaries ==
    pc = "chunked" =>
        /\ LinesOfChunks(chunks) = splitlines(text)
        /\ \A j \in 1..Len(chunks) :
              LET g == SplitLF(chunks[j])
              IN /\ \A k \in 2..Len(g) : RunLen(SubSeq(g, 1, k)) <= char_limit
                 /\ j > 1 =>
                       RunLen(SplitLF(chunks[j - 1])) + Len(g[1]) + 1 > char_limit
        /\ (text = ScenarioText /\ char_limit = 3) => chunks = ScenarioChunks
        /\ text = <<>> => chunks = <<>>

C9_Witness ==
    /\ pc = "chunked" /\ text = ScenarioText /\ char_limit = 3
    /\ chunks = ScenarioChunks

\* ============================================================ chunked_tts
\* Reading a file in text mode with newline=None (Path.read_text): "\r\n"
\* and "\r" both arrive as "\n".
RECURSIVE read_text(_)
read_text(data) ==
    IF data = <<>> THEN <<>>
    ELSE IF data[1] = CR
         THEN <<LF>> \o read_text(IF Len(data) >= 2 /\ data[2] = LF
                                  THEN SubSeq(data, 3, Len(data))
                                  ELSE Tail(data))
         ELSE <<data[1]>> \o read_text(Tail(data))

\* A part of a generate_content response: inline_data may be missing, and
\* its data may be empty.
PartData == {<<>>, <<1>>, <<2>>}
Parts == {[has_inline |-> FALSE, data |-> <<>>]}
            \cup {[has_inline |-> TRUE, data |-> d] : d \in PartData}
Responses == SeqsUpTo(Parts, MaxParts)

\* b"".join(p.inline_data.data for p in parts
\*          if getattr(p, "inline_data", None) and p.inline_data.data)
RECURSIVE tts_chunk(_)
tts_chunk(parts) ==
    IF parts = <<>> THEN <<>>
    ELSE (IF Head(parts).has_inline /\ Head(parts).data # <<>>
          THEN Head(parts).data ELSE <<>>) \o tts_chunk(Tail(parts))

MainAlphabet == {"a", LF, CR}

\* main reads its text file and chunks it with the default limit. A text
\* within the model's bounds never reaches CHUNK_CHAR_LIMIT characters, so
\* the behaviours start with either the default or MainLimit, which stands
\* for it on texts long enough to be split.
Init ==
    /\ pc = "start"
    /\ text = <<>> /\ chunks = <<>>
    /\ char_limit \in {CHUNK_CHAR_LIMIT, MainLimit}
    /\ text_file \in {NoFile} \cup
          {[exists |-> TRUE, data |-> d] : d \in SeqsUpTo(MainAlphabet, MaxMainLen)}
    /\ api_key \in BOOLEAN
    /\ fmt \in {"wav", "mp3"}
    /\ AudioSegment \in {"None", "pydub"}
    /\ idx = 0 /\ resp = <<>> /\ pcm_all = <<>>
    /\ calls = <<>> /\ returned = <<>> /\ failed = 0
    /\ out_file = NoAudio /\ exit_status = "running"
    /\ CacheIdle

\* sys.exit(f"Input text file ... not found")
MainNoTextFile ==
    /\ pc = "start" /\ ~text_file.exists
    /\ pc' = "exited" /\ exit_status' = "sys_exit"
    /\ UNCHANGED <<chunkVars, text_file, api_key, fmt, AudioSegment, idx, resp,
                   pcm_all, calls, returned, failed, out_file, cacheVars>>

\* sys.exit("GEMINI_API_KEY environment variable not set")
MainNoApiKey ==
    /\ pc = "start" /\ text_file.exists /\ ~api_key
    /\ pc' = "exited" /\ exit_status' = "sys_exit"
    /\ UNCHANGED <<chunkVars, text_file, api_key, fmt, AudioSegment, idx, resp,
                   pcm_all, calls, returned, failed, out_file, cacheVars>>

\* text = args.text_file.read_text(); chunks = chunk_text_by_lines(text);
\* pcm_all = b""; the loop starts at idx 1.
MainChunk ==
    /\ pc = "start" /\ text_file.exists /\ api_key
    /\ text' = read_text(text_file.data)
    /\ chunks' = chunk_text_by_lines(text', char_limit)
    /\ pcm_all' = <<>>
    /\ idx' = 1
    /\ pc' = "loop"
    /\ UNCHANGED <<char_limit, text_file, api_key, fmt, AudioSegment, resp, calls,
                   returned, failed, out_file, exit_status, cacheVars>>

\* The loop takes the next chunk and tts_chunk sends it to the backend.
MainLoop ==
    /\ pc = "loop" /\ idx <= Len(chunks)
    /\ calls' = Append(calls, idx)
    /\ pc' = "tts"
    /\ UNCHANGED <<chunkVars, text_file, api_key, fmt, AudioSegment, idx, resp,
                   pcm_all, returned, failed, out_file, exit_status, cacheVars>>

\* generate_content returns a response and tts_chunk its audio bytes.
TtsReturn ==
    /\ pc = "tts"
    /\ \E parts \in Responses :
          /\ resp' = tts_chunk(parts)
          /\ returned' = Append(returned, tts_chunk(parts))
    /\ pc' = "append"
    /\ UNCHANGED <<chunkVars, text_file, api_key, fmt, AudioSegment, idx, pcm_all,
                   calls, failed, out_file, exit_status, cacheVars>>

\* generate_content raises, or the response has no candidates[0].content.parts:
\* nothing catches the exception and the process ends.
\* (variant: the exception is swallowed and the loop goes on)
TtsRaiseSkip ==
    /\ pc = "tts"
    /\ failed' = idx
    /\ resp' = <<>>
    /\ returned' = Append(returned, <<>>)
    /\ pc' = "append"
    /\ UNCHANGED <<chunkVars, text_file, api_key, fmt, AudioSegment, idx, pcm_all,
                   calls, out_file, exit_status, cacheVars>>
TtsRaise ==
    /\ pc = "tts"
    /\ failed' = idx
    /\ pc' = "exited" /\ exit_status' = "backend_error"
    /\ UNCHANGED <<chunkVars, text_file, api_key, fmt, AudioSegment, idx, resp,
                   pcm_all, calls, returned, out_file, cacheVars>>

\* pcm_all += tts_chunk(client, chunk), and the loop moves on.
\* (variants: the bytes are put in front; the loop skips a chunk)
MainAppendPrepend ==
    /\ pc = "append"
    /\ pcm_all' = resp \o pcm_all
    /\ resp' = <<>>
    /\ idx' = idx + 1
    /\ pc' = "loop"
    /\ UNCHANGED <<chunkVars, text_file, api_key, fmt, AudioSegment, calls,
                   returned, failed, out_file, exit_status, cacheVars>>
MainAppendSkip ==
    /\ pc = "append"
    /\ pcm_all' = pcm_all \o resp
    /\ resp' = <<>>
    /\ idx' = idx + 2
    /\ pc' = "loop"
    /\ UNCHANGED <<chunkVars, text_file, api_key, fmt, AudioSegment, calls,
                   returned, failed, out_file, exit_status, cacheVars>>
MainAppend ==
    /\ pc = "append"
    /\ pcm_all' = pcm_all \o resp
    /\ resp' = <<>>
    /\ idx' = idx + 1
    /\ pc' = "loop"
    /\ UNCHANGED <<chunkVars, text_file, api_key, fmt, AudioSegment, calls,
                   returned, failed, out_file, exit_status, cacheVars>>

\* save_audio_file, fmt == "mp3" and AudioSegment is None: RuntimeError.
SaveMp3NoCodec ==
    /\ pc = "loop" /\ idx > Len(chunks)
    /\ fmt = "mp3" /\ AudioSegment = "None"
    /\ pc' = "exited" /\ exit_status' = "RuntimeError"
    /\ UNCHANGED <<chunkVars, text_file, api_key, fmt, AudioSegment, idx, resp,
                   pcm_all, calls, returned, failed, out_file, cacheVars>>

\* save_audio_file, fmt == "mp3": AudioSegment(data=pcm, ...).export(...).
SaveMp3 ==
    /\ pc = "loop" /\ idx > Len(chunks)
    /\ fmt = "mp3" /\ AudioSegment # "None"
    /\ out_file' = [written |-> TRUE, suffix |-> ".mp3", pcm |-> pcm_all]
    /\ pc' = "exited" /\ exit_status' = "ok"
    /\ UNCHANGED <<chunkVars, text_file, api_key, fmt, AudioSegment, idx, resp,
                   pcm_all, calls, returned, failed, cacheVars>>

\* save_audio_file, the else branch: wf.writeframes(pcm).
SaveWav ==
    /\ pc = "loop" /\ idx > Len(chunks)
    /\ fmt # "mp3"
    /\ out_file' = [written |-> TRUE, suffix |-> ".wav", pcm |-> pcm_all]
    /\ pc' = "exited" /\ exit_status' = "ok"
    /\ UNCHANGED <<chunkVars, text_file, api_key, fmt, AudioSegment, idx, resp,
                   pcm_all, calls, returned, failed, cacheVars>>

Next ==
    \/ MainNoTextFile
    \/ MainNoApiKey
    \/ MainChunk
    \/ MainLoop
    \/ TtsReturn
    \/ TtsRaise
    \/ MainAppend
    \/ SaveMp3NoCodec
    \/ SaveMp3
    \/ SaveWav

Spec == Init /\ [][Next]_vars

\* b"".join(ps)
RECURSIVE Flatten(_)
Flatten(ps) == IF ps = <<>> THEN <<>> ELSE Head(ps) \o Flatten(Tail(ps))

\* C3: after the k-th chunk has been processed the accumulator is
\* p1 + ... + pk, the bytes the backend returned for chunks 1..k in chunk
\* order, and the buffer save_audio_file writes is p1 + ... + pn.
C3_AccumulatorIsConcat ==
    /\ pc \in {"loop", "tts", "append"} =>
          /\ idx - 1 <= Len(returned)
          /\ pcm_all = Flatten(SubSeq(returned, 1, idx - 1))
    /\ out_file.written =>
          /\ Len(returned) = Len(chunks)
          /\ out_file.pcm = Flatten(returned)

C3_Witness ==
    /\ out_file.written
    /\ Len(returned) >= 2
    /\ returned[1] # <<>> /\ returned[2] # <<>> /\ returned[1] # returned[2]

\* C4: with --format mp3 and AudioSegment None, the configuration error is
\* raised before any backend call: no chunk is ever submitted.
C4_FailFast ==
    (fmt = "mp3" /\ AudioSegment = "None") => calls = <<>>

\* C6: backend calls are issued one at a time and in chunk order, the call
\* for a chunk only after the bytes of every earlier chunk were appended, and
\* a run that gets through the loop has submitted every chunk exactly once.
C6_SequentialInOrder ==
    /\ \A i \in 1..Len(calls) : calls[i] = i
    /\ Len(calls) <= Len(chunks)
    /\ Len(calls) - Len(returned) = (IF pc = "tts" \/ failed # 0 THEN 1 ELSE 0)
    /\ pc = "tts" => pcm_all = Flatten(returned)
    /\ ((pc = "loop" /\ idx > Len(chunks)) \/ exit_status \in {"ok", "RuntimeError"})
          => Len(calls) = Len(chunks)

C6_Witness ==
    /\ exit_status = "ok"
    /\ Len(chunks) = 3
    /\ calls = <<1, 2, 3>>

\* C7: a failed backend call is not retried and ends the run: the failed
\* chunk is the last one submitted, it was submitted once, and no audio file
\* is written.
C7_BackendFailureAborts ==
    failed # 0 =>
        /\ pc = "exited" /\ exit_status = "backend_error"
        /\ ~out_file.written
        /\ Len(calls) = failed
        /\ Cardinality({i \in 1..Len(calls) : calls[i] = failed}) = 1

C7_Witness ==
    /\ failed = 2
    /\ Len(chunks) = 3
    /\ returned # <<>> /\ returned[1] # <<>>
    /\ pc = "exited"

\* C8: a run in which some chunk yielded zero audio bytes does not end as a
\* success that writes the output file.
C8_EmptyAudioIsFailure ==
    (exit_status = "ok" /\ out_file.written) =>
        \A i \in 1..Len(returned) : returned[i] # <<>>

\* ======================================================== text_extraction
ExtractAlphabet == {"a", LF, CR, SURR}
ExtractTexts == SeqsUpTo(ExtractAlphabet, MaxExtractLen)

\* Whether str.encode("utf-8") accepts t.
Encodable(t) == \A i \in 1..Len(t) : t[i] # SURR

\* Writing a file in text mode with newline=None (Path.write_text): every
\* "\n" leaves as os.linesep.
RECURSIVE write_text(_, _)
write_text(t, sep) ==
    IF t = <<>> THEN <<>>
    ELSE (IF t[1] = LF THEN sep ELSE <<t[1]>>) \o write_text(Tail(t), sep)

Finished(kind, t) ==
    [kind |-> kind, text |-> t, fs_before |-> cur.fs_before,
     fs_after |-> fs_txt', reqs |-> requests' - cur.reqs_before]

\* Every call is made with the same txt_path; the file may be there already.
InitCache ==
    /\ pc = "idle"
    /\ fs_txt \in {NoFile, [exists |-> TRUE, data |-> <<"a">>],
                   [exists |-> TRUE, data |-> <<"a", CR, LF>>]}
    /\ linesep \in {<<LF>>, <<CR, LF>>}
    /\ ncalls = 0 /\ requests = 0
    /\ extracted = <<>> /\ cur = NoCall /\ log = <<>>
    /\ text = <<>> /\ char_limit = CHUNK_CHAR_LIMIT /\ chunks = <<>>
    /\ MainIdle

\* extract_text_from_pdf is called.
ExtractCall ==
    /\ pc = "idle" /\ ncalls < MaxCalls
    /\ ncalls' = ncalls + 1
    /\ cur' = [fs_before |-> fs_txt, reqs_before |-> requests]
    /\ pc' = "check"
    /\ UNCHANGED <<chunkVars, mainVars, fs_txt, linesep, requests, extracted, log>>

\* if txt_path.exists(): return txt_path.read_text(encoding="utf-8")
ExtractCacheHit ==
    /\ pc = "check" /\ fs_txt.exists
    /\ UNCHANGED <<fs_txt, requests>>
    /\ log' = Append(log, Finished("hit", read_text(fs_txt.data)))
    /\ pc' = "idle"
    /\ UNCHANGED <<chunkVars, mainVars, linesep, ncalls, extracted, cur>>

\* The file is not there: on to the prompt, the client and the PDF.
\* (variant: the text file is opened for writing before the request)
ExtractCacheMissTouch ==
    /\ pc = "check" /\ ~fs_txt.exists
    /\ fs_txt' = [exists |-> TRUE, data |-> <<>>]
    /\ pc' = "read_pdf"
    /\ UNCHANGED <<chunkVars, mainVars, linesep, ncalls, requests, extracted,
                   cur, log>>
ExtractCacheMiss ==
    /\ pc = "check" /\ ~fs_txt.exists
    /\ pc' = "read_pdf"
    /\ UNCHANGED <<chunkVars, mainVars, fs_txt, linesep, ncalls, requests,
                   extracted, cur, log>>

\* with pdf_path.open("rb") as fh: pdf_bytes = fh.read()
ExtractReadPdf ==
    /\ pc = "read_pdf"
    /\ pc' = "request"
    /\ UNCHANGED <<chunkVars, mainVars, fs_txt, linesep, ncalls, requests,
                   extracted, cur, log>>

\* pdf_path.open raises (no such file, not readable).
ExtractReadPdfError ==
    /\ pc = "read_pdf"
    /\ UNCHANGED <<fs_txt, requests>>
    /\ log' = Append(log, Finished("pdf_error", <<>>))
    /\ pc' = "idle"
    /\ UNCHANGED <<chunkVars, mainVars, linesep, ncalls, extracted, cur>>

\* client.chat.completions.create(...) returns;
\* extracted_text = response.choices[0].message.content
ExtractRequest ==
    /\ pc = "request"
    /\ requests' = requests + 1
    /\ extracted' \in ExtractTexts
    /\ pc' = "write"
    /\ UNCHANGED <<chunkVars, mainVars, fs_txt, linesep, ncalls, cur, log>>

\* The request raises, or its response has no choices[0], or its content is
\* None (write_text refuses it before opening the file).
ExtractRequestError ==
    /\ pc = "request"
    /\ requests' = requests + 1
    /\ UNCHANGED fs_txt
    /\ log' = Append(log, Finished("request_error", <<>>))
    /\ pc' = "idle"
    /\ UNCHANGED <<chunkVars, mainVars, linesep, ncalls, extracted, cur>>

\* txt_path.write_text(extracted_text, encoding="utf-8"); return extracted_text
ExtractWrite ==
    /\ pc = "write" /\ Encodable(extracted)
    /\ fs_txt' = [exists |-> TRUE, data |-> write_text(extracted, linesep)]
    /\ UNCHANGED requests
    /\ log' = Append(log, Finished("miss", extracted))
    /\ pc' = "idle"
    /\ UNCHANGED <<chunkVars, mainVars, linesep, ncalls, extracted, cur>>

\* write_text opens (and so creates) the file, then the encoder raises
\* UnicodeEncodeError: the file stays, empty.
ExtractWriteError ==
    /\ pc = "write" /\ ~Encodable(extracted)
    /\ fs_txt' = [exists |-> TRUE, data |-> <<>>]
    /\ UNCHANGED requests
    /\ log' = Append(log, Finished("write_error", <<>>))
    /\ pc' = "idle"
    /\ UNCHANGED <<chunkVars, mainVars, linesep, ncalls, extracted, cur>>

NextCache ==
    \/ ExtractCall
    \/ ExtractCacheHit
    \/ ExtractCacheMiss
    \/ ExtractReadPdf
    \/ ExtractReadPdfError
    \/ ExtractRequest
    \/ ExtractRequestError
    \/ ExtractWrite
    \/ ExtractWriteError

SpecCache == InitCache /\ [][NextCache]_vars

\* C5: after a first call that found no cached file, issued the request and
\* saved the result, the next call returns exactly the first call's text,
\* issues no request and leaves the file as it is.
C5_SecondCallSameText ==
    \A i \in 1..(Len(log) - 1) :
        (log[i].kind = "miss" /\ ~log[i].fs_before.exists) =>
            /\ log[i + 1].kind = "hit"
            /\ log[i + 1].reqs = 0
            /\ log[i + 1].fs_after = log[i + 1].fs_before
            /\ log[i + 1].text = log[i].text

\* C10: on a cache miss the text file is written only after the request has
\* returned: while the PDF is read and the request is pending the file is
\* untouched, a call that fails there issued at most one request and leaves
\* no file, and the next call is again a miss that issues a new request.
C10_WriteOnlyAfterSuccess ==
    /\ pc \in {"read_pdf", "request"} => (fs_txt = cur.fs_before /\ ~fs_txt.exists)
    /\ \A i \in 1..Len(log) :
          log[i].kind \in {"pdf_error", "request_error"} =>
              /\ log[i].fs_after = log[i].fs_before
              /\ ~log[i].fs_after.exists
              /\ log[i].reqs = (IF log[i].kind = "pdf_error" THEN 0 ELSE 1)
              /\ i < Len(log) =>
                    /\ log[i + 1].kind # "hit"
                    /\ log[i + 1].kind # "pdf_error" => log[i + 1].reqs = 1

C10_Witness ==
    /\ Len(log) >= 3
    /\ log[1].kind = "request_error"
    /\ log[2].kind = "miss" /\ log[2].text # <<>>
    /\ log[3].kind = "hit"

====
